---- MODULE Spec2Model ----
(***************************************************************************)
(* Model of idasen.py: the tray-icon helper that drives a standing desk    *)
(* between named positions and nags the user to change position.           *)
(*                                                                         *)
(* Processes:                                                              *)
(*   - the wx main loop, which runs the UI callbacks of TaskBarIcon and    *)
(*     dispatches the pending events of MainFrame one at a time            *)
(*     (_change_position, _toggle_position);                               *)
(*   - one thread per TimeCounter (run: sleep, test _want_abort, post);    *)
(*   - the environment: the idasen config file and the idasen executable.  *)
(* The Exit item of the menu closes MainFrame and queues the removal of the *)
(* tray icon; the main loop later runs the queued removal and then deletes *)
(* the frame, and its pending events with it.                              *)
(***************************************************************************)
EXTENDS Naturals, Sequences, FiniteSets

----------------------------------------------------------------------------
(* Bounds of the model *)

\* TimeCounter objects that may be created in one run
MaxTimers == 3

\* menu clicks (TaskBarIcon.on_position calls) in one run
MaxRequests == 2

----------------------------------------------------------------------------
(* Values *)

\* self.__position = None
None == "None"

\* position names that appear in the config files considered
Names == {"sit", "stand", "mid"}

\* POSITIONS_TIMES: minutes allowed at a position
POSITIONS_TIMES == [stand |-> 1, sit |-> 1]

\* contents of ~/.config/idasen/idasen.yaml as seen by
\* read_positions_from_idasen_config_file: ok = FALSE when open(), the YAML
\* parse or config["positions"] raises
Unreadable == [ok |-> FALSE, positions |-> {}]

Configs ==
    { Unreadable,
      [ok |-> TRUE, positions |-> {"sit", "stand"}],
      [ok |-> TRUE, positions |-> {"sit", "stand", "mid"}],
      [ok |-> TRUE, positions |-> {"sit"}] }

\* label of the last item of the popup menu
Exit == "Exit"

\* items of the popup menu: one per position, then Exit
MenuItems == Names \cup {Exit}

TimerIds == 1 .. MaxTimers

\* TimeCounter.__init__: thread not started, _want_abort = False
NewTimer == [pc |-> "new", want_abort |-> FALSE, sleep_time |-> 0, signals |-> 0]

\* PositionChangeEvent(EVT_POSITION_CHANGE_ID, position=name); origin is the
\* timer whose timeout event produced it (0: the menu), stale tells whether
\* that timer was no longer the stored counter when its timeout was handled
ChangeEvent(name, origin, stale) ==
    [type |-> "change", position |-> name, timer |-> origin, stale |-> stale]

\* the PositionTimeoutEvent() instance given to TimeCounter number t
TimeoutEvent(t) ==
    [type |-> "timeout", position |-> None, timer |-> t, stale |-> FALSE]

----------------------------------------------------------------------------
VARIABLES
    position,    \* MainFrame.__position
    nagging,     \* MainFrame.__position_change_nagging_enabled
    counter,     \* MainFrame.__position_change_counter (0: None, else timer id)
    timers,      \* the TimeCounter objects, by id
    nextTimer,   \* id of the next TimeCounter to be constructed
    queue,       \* pending events posted to MainFrame with wx.PostEvent
    config,      \* the idasen config file
    menu,        \* position names of the popup menu being shown
    requests,    \* number of on_position calls so far
    moves,       \* arguments of the set_idasen_position calls so far
    result,      \* outcome of the last _change_position call
    frame,       \* MainFrame window: "open", "closing" after Close(),
                 \* "destroyed" once wx has deleted it
    tray         \* the TaskBarIcon exists (its Destroy has not run)

vars == <<position, nagging, counter, timers, nextTimer, queue, config, menu,
          requests, moves, result, frame, tray>>

\* the values the state takes
TypeOK ==
    /\ position \in Names \cup {None}
    /\ nagging \in BOOLEAN
    /\ counter \in 0 .. MaxTimers
    /\ nextTimer \in 1 .. MaxTimers + 1
    /\ \A t \in TimerIds :
         /\ timers[t].pc \in {"new", "sleeping", "woken", "posting", "posted",
                              "returned", "failed"}
         /\ timers[t].want_abort \in BOOLEAN
         /\ timers[t].sleep_time \in {0, 60}
         /\ timers[t].signals \in {0, 1}
    /\ \A i \in 1 .. Len(queue) :
         /\ queue[i].type \in {"change", "timeout"}
         /\ queue[i].position \in Names \cup {None}
         /\ queue[i].timer \in 0 .. MaxTimers
    /\ config \in Configs
    /\ menu \subseteq MenuItems
    /\ requests \in 0 .. MaxRequests
    /\ \A i \in 1 .. Len(moves) : moves[i] \in Names
    /\ result \in {"none", "ok", "InvalidPosition", "ConfigUnavailable",
                   "DeskMoveFailed"}
    /\ frame \in {"open", "closing", "destroyed"}
    /\ tray \in BOOLEAN

----------------------------------------------------------------------------
(* Pure helpers *)

\* POSITIONS_TIMES.get(position_name, None); None is rendered as 0, both are
\* falsy in "if not max_time_at_position"
MaxTimeAtPosition(position_name) ==
    IF position_name \in DOMAIN POSITIONS_TIMES
    THEN POSITIONS_TIMES[position_name]
    ELSE 0

\* mutant: the comparison is made with "sit"
NextPositionSit(current) ==
    IF current = "sit" THEN "sit" ELSE "stand"

\* _toggle_position: "sit" if self.current_position == "stand" else "stand"
NextPosition(current) ==
    IF current = "stand" THEN "sit" ELSE "stand"

\* mutant: every name passes the membership test
IsValidPositionAny(name) == TRUE

\* _change_position: event.position in read_positions_from_idasen_config_file()
IsValidPosition(name) == name \in config.positions

\* mutant: a failed read is taken for an empty mapping
ConfigReadableAlways == TRUE

\* read_positions_from_idasen_config_file returns (does not raise)
ConfigReadable == config.ok

\* mutant: the counter is set up whatever the constructor argument was
NaggingEnabledAlways == TRUE

\* _change_position: if self.__position_change_nagging_enabled
NaggingEnabled == nagging

\* mutant: run never looks at the flag
AbortRequestedNever(t) == FALSE

\* mutant: the test of the flag is inverted
AbortRequestedInverted(t) == ~timers[t].want_abort

\* TimeCounter.run: if self._want_abort
AbortRequested(t) == timers[t].want_abort

\* mutant: the desk-mover is not invoked when the position is already held
SetIdasenPositionIfNew(ms, name) ==
    IF ms # <<>> /\ ms[Len(ms)] = name THEN ms ELSE Append(ms, name)

\* set_idasen_position: one Popen(["idasen", position]) call, recorded with
\* its argument
SetIdasenPosition(ms, name) == Append(ms, name)

\* mutant: abort flips the flag instead of setting it
AbortCounterFlip(ts, c) ==
    IF c = 0 THEN ts ELSE [ts EXCEPT ![c].want_abort = ~ts[c].want_abort]

\* mutant: the stored counter is replaced without being aborted
AbortCounterSkip(ts, c) == ts

\* TimeCounter.abort on the stored counter, when there is one:
\* if self.__position_change_counter: self.__position_change_counter.abort()
AbortCounter(ts, c) ==
    IF c = 0 THEN ts ELSE [ts EXCEPT ![c].want_abort = TRUE]

\* TimeCounter.start: self._sleep_time = time * 60, then the thread runs
StartedTimer(time) ==
    [pc |-> "sleeping", want_abort |-> FALSE, sleep_time |-> time * 60,
     signals |-> 0]

----------------------------------------------------------------------------
(* TimeCounter threads *)

\* run: time.sleep(self._sleep_time) returns
TimerWake(t) ==
    /\ timers[t].pc = "sleeping"
    /\ timers' = [timers EXCEPT ![t].pc = "woken"]
    /\ UNCHANGED <<position, nagging, counter, nextTimer, queue, config, menu,
                   requests, moves, result, frame, tray>>

\* run: if self._want_abort: return
TimerTest(t) ==
    /\ timers[t].pc = "woken"
    /\ timers' = [timers EXCEPT
                    ![t].pc = IF AbortRequested(t) THEN "returned" ELSE "posting"]
    /\ UNCHANGED <<position, nagging, counter, nextTimer, queue, config, menu,
                   requests, moves, result, frame, tray>>

\* run: wx.PostEvent(self._notify_window, self._timeout_event), then the
\* thread ends. When the window has been deleted no event reaches a handler:
\* the call raises in the thread (wxPython refuses a deleted window), or it
\* returns and the event is dropped
TimerPost(t) ==
    /\ timers[t].pc = "posting"
    /\ IF frame = "destroyed"
       THEN /\ \E raised \in BOOLEAN :
                 timers' = IF raised
                           THEN [timers EXCEPT ![t].pc = "failed"]
                           ELSE [timers EXCEPT
                                   ![t].pc = "posted",
                                   ![t].signals = timers[t].signals + 1]
            /\ queue' = queue
       ELSE /\ timers' = [timers EXCEPT ![t].pc = "posted",
                                        ![t].signals = timers[t].signals + 1]
            /\ queue' = Append(queue, TimeoutEvent(t))
    /\ UNCHANGED <<position, nagging, counter, nextTimer, config, menu,
                   requests, moves, result, frame, tray>>

TimerStep(t) == TimerWake(t) \/ TimerTest(t) \/ TimerPost(t)

----------------------------------------------------------------------------
(* MainFrame: handlers run by the wx main loop, one pending event at a time *)

\* _start_position_change_counter
StartPositionChangeCounter(position_name) ==
    LET max_time_at_position == MaxTimeAtPosition(position_name) IN
    IF max_time_at_position = 0
    THEN UNCHANGED <<counter, timers, nextTimer>>
    ELSE /\ nextTimer <= MaxTimers
         /\ timers' = [AbortCounter(timers, counter) EXCEPT
                         ![nextTimer] = StartedTimer(max_time_at_position)]
         /\ counter' = nextTimer
         /\ nextTimer' = nextTimer + 1

\* _change_position, bound to EVT_POSITION_CHANGE. spawned tells whether
\* Popen(["idasen", position]) in set_idasen_position returns or raises
\* OSError (executable missing, fork failure); an exception raised in the
\* handler ends the handler and the main loop goes on.
ChangePosition ==
    /\ frame # "destroyed"
    /\ queue # <<>>
    /\ Head(queue).type = "change"
    /\ queue' = Tail(queue)
    /\ LET event == Head(queue) IN
       IF ~ConfigReadable
       THEN /\ result' = "ConfigUnavailable"
            /\ UNCHANGED <<position, moves, counter, timers, nextTimer>>
       ELSE IF ~IsValidPosition(event.position)
       THEN /\ result' = "InvalidPosition"
            /\ UNCHANGED <<position, moves, counter, timers, nextTimer>>
       ELSE /\ position' = event.position
            /\ moves' = SetIdasenPosition(moves, event.position)
            /\ \E spawned \in BOOLEAN :
                 IF ~spawned
                 THEN /\ result' = "DeskMoveFailed"
                      /\ UNCHANGED <<counter, timers, nextTimer>>
                 ELSE /\ result' = "ok"
                      /\ IF NaggingEnabled
                         THEN StartPositionChangeCounter(event.position)
                         ELSE UNCHANGED <<counter, timers, nextTimer>>
    /\ UNCHANGED <<nagging, config, menu, requests, frame, tray>>

\* _toggle_position, bound to EVT_POSITION_TIMEOUT
TogglePosition ==
    /\ frame # "destroyed"
    /\ queue # <<>>
    /\ Head(queue).type = "timeout"
    /\ LET next_position == NextPosition(position)
           origin == Head(queue).timer
       IN  queue' = Append(Tail(queue),
                           ChangeEvent(next_position, origin, origin # counter))
    /\ UNCHANGED <<position, nagging, counter, timers, nextTimer, config, menu,
                   requests, moves, result, frame, tray>>

----------------------------------------------------------------------------
(* TaskBarIcon: UI callbacks *)

\* CreatePopupMenu / add_positions_to_menu: one item per configured position,
\* a separator and the Exit item; when the config cannot be read the callback
\* raises and no menu is shown
CreatePopupMenu ==
    /\ tray
    /\ menu' = IF ConfigReadable THEN config.positions \cup {Exit} ELSE {}
    /\ menu' # menu
    /\ UNCHANGED <<position, nagging, counter, timers, nextTimer, queue, config,
                   requests, moves, result, frame, tray>>

\* mutant: the request is posted without looking at the current position
OnPositionNoCheck(position_name) ==
    /\ position_name \in menu
    /\ requests < MaxRequests
    /\ requests' = requests + 1
    /\ menu' = {}
    /\ queue' = Append(queue, ChangeEvent(position_name, 0, FALSE))
    /\ UNCHANGED <<position, nagging, counter, timers, nextTimer, config,
                   moves, result, frame, tray>>

\* on_position: the user picks an item of the menu, which closes it
OnPosition(position_name) ==
    /\ position_name \in menu
    /\ requests < MaxRequests
    /\ requests' = requests + 1
    /\ menu' = {}
    /\ queue' = IF position_name = position
                THEN queue
                ELSE Append(queue, ChangeEvent(position_name, 0, FALSE))
    /\ UNCHANGED <<position, nagging, counter, timers, nextTimer, config,
                   moves, result, frame, tray>>

\* on_exit: the user picks Exit; wx.CallAfter(self.Destroy) queues the removal
\* of the tray icon and self.frame.Close() closes the frame
OnExit ==
    /\ Exit \in menu
    /\ menu' = {}
    /\ frame' = "closing"
    /\ UNCHANGED <<position, nagging, counter, timers, nextTimer, queue, config,
                   requests, moves, result, tray>>

\* the main loop runs the call queued by wx.CallAfter(self.Destroy): the tray
\* icon and the menu it shows are gone
TrayDestroyed ==
    /\ frame = "closing"
    /\ tray
    /\ tray' = FALSE
    /\ menu' = {}
    /\ UNCHANGED <<position, nagging, counter, timers, nextTimer, queue, config,
                   requests, moves, result, frame>>

\* wx deletes the closed frame in the main loop, after the calls queued before
\* Close(); the events still pending for the frame are deleted with it and
\* none is dispatched afterwards
FrameDestroyed ==
    /\ frame = "closing"
    /\ ~tray
    /\ frame' = "destroyed"
    /\ queue' = <<>>
    /\ UNCHANGED <<position, nagging, counter, timers, nextTimer, config, menu,
                   requests, moves, result, tray>>

----------------------------------------------------------------------------
(* Environment *)

\* the config file is edited, removed or restored outside the program
ConfigChange ==
    /\ config' \in Configs \ {config}
    /\ UNCHANGED <<position, nagging, counter, timers, nextTimer, queue, menu,
                   requests, moves, result, frame, tray>>

----------------------------------------------------------------------------
(* Specification *)

\* MainFrame.__init__; the config file is whatever the user has
Init ==
    /\ position = None
    /\ nagging \in BOOLEAN
    /\ counter = 0
    /\ timers = [t \in TimerIds |-> NewTimer]
    /\ nextTimer = 1
    /\ queue = <<>>
    /\ config \in Configs
    /\ menu = {}
    /\ requests = 0
    /\ moves = <<>>
    /\ result = "none"
    /\ frame = "open"
    /\ tray = TRUE

Next ==
    \/ ChangePosition
    \/ TogglePosition
    \/ CreatePopupMenu
    \/ \E p \in Names : OnPosition(p)
    \/ OnExit
    \/ TrayDestroyed
    \/ FrameDestroyed
    \/ \E t \in TimerIds : TimerStep(t)
    \/ ConfigChange

Spec == Init /\ [][Next]_vars

\* the main loop dispatches pending events; every started thread is scheduled
LiveSpec ==
    /\ Spec
    /\ WF_vars(ChangePosition)
    /\ WF_vars(TogglePosition)
    /\ \A t \in TimerIds : WF_vars(TimerStep(t))

\* on_position called only when every earlier request has been processed and
\* no timeout event is pending: nothing is queued
OnPositionInTurn(position_name) ==
    /\ queue = <<>>
    /\ OnPosition(position_name)

NextInTurn ==
    \/ ChangePosition
    \/ TogglePosition
    \/ CreatePopupMenu
    \/ \E p \in Names : OnPositionInTurn(p)
    \/ OnExit
    \/ TrayDestroyed
    \/ FrameDestroyed
    \/ \E t \in TimerIds : TimerStep(t)
    \/ ConfigChange

\* the runs in which the user issues one request at a time
InTurnSpec == Init /\ [][NextInTurn]_vars

----------------------------------------------------------------------------
(* Properties *)

\* this step is the main loop running _change_position on the head event
HandlesChange ==
    /\ frame' = frame
    /\ queue # <<>>
    /\ Head(queue).type = "change"
    /\ queue' = Tail(queue)

\* the head event's name passes the validation of _change_position
HeadAccepted ==
    /\ config.ok
    /\ Head(queue).position \in config.positions

\* the controller state is left as it was
ControllerUnchanged ==
    /\ position' = position
    /\ counter' = counter
    /\ timers' = timers
    /\ nextTimer' = nextTimer
    /\ moves' = moves

\* C1: a change command produced by the timeout of a timer that was already
\* superseded (no longer the stored counter when its timeout was handled)
\* never changes the position, never invokes the desk-mover and never starts
\* a timer.
C1_NoStaleTimerEffect ==
    [][ (HandlesChange /\ Head(queue).stale)
          => (position' = position /\ moves' = moves /\ counter' = counter
              /\ nextTimer' = nextTimer) ]_vars

\* C2: processing a change command whose name equals the current position is
\* a no-op: no desk-mover invocation, the stored timer neither aborted nor
\* replaced.
C2_SameNameIsNoOp ==
    [][ (HandlesChange /\ Head(queue).position = position)
          => (moves' = moves /\ counter' = counter /\ timers' = timers) ]_vars

\* C3: when a change is accepted (and the desk-mover spawned) for a name with
\* no positive dwell, or with nagging disabled, the stored timer is aborted
\* and cleared.
C3_NoDwellClearsTimer ==
    [][ (HandlesChange /\ HeadAccepted /\ result' = "ok"
         /\ (~nagging \/ MaxTimeAtPosition(Head(queue).position) = 0))
          => (counter' = 0
              /\ (counter # 0 => timers'[counter].want_abort)) ]_vars

\* C4: with nagging enabled and sit and stand both configured, once the
\* change command produced by the timeout of the stored timer has been
\* processed, the position is the toggle's target and a new running timer is
\* stored.
C4_ToggleCorrectness ==
    [][ (HandlesChange /\ nagging /\ config.ok
         /\ {"sit", "stand"} \subseteq config.positions
         /\ Head(queue).timer # 0 /\ Head(queue).timer = counter)
          => (position' = Head(queue).position
              /\ counter' # counter
              /\ timers'[counter'].pc = "sleeping"
              /\ ~timers'[counter'].want_abort) ]_vars

\* C5: a change command whose name is not in the position set read from the
\* config when it is processed is reported as InvalidPosition and leaves the
\* controller state unchanged.
C5_Validation ==
    [][ (HandlesChange /\ config.ok
         /\ Head(queue).position \notin config.positions)
          => (result' = "InvalidPosition" /\ ControllerUnchanged) ]_vars

\* C5 witness: an invalid name was rejected while a position was held and a
\* timer stored
C5_Witness ==
    /\ result = "InvalidPosition"
    /\ position # None
    /\ counter # 0

\* C6: a started timer that is never aborted eventually posts its timeout
\* event, and no timer posts more than one.
C6_TimeoutExactlyOnce ==
    /\ [](\A t \in TimerIds : timers[t].signals <= 1)
    /\ \A t \in TimerIds :
         (timers[t].pc = "sleeping")
            ~> (timers[t].want_abort \/ timers[t].signals = 1)

\* C6, amended: a started timer that is never aborted eventually posts its
\* timeout event unless the frame it notifies is destroyed first (Exit), and
\* no timer posts more than one.
C6_TimeoutExactlyOnceWhileOpen ==
    /\ [](\A t \in TimerIds : timers[t].signals <= 1)
    /\ \A t \in TimerIds :
         (timers[t].pc = "sleeping")
            ~> (\/ timers[t].want_abort
                \/ timers[t].signals = 1
                \/ frame = "destroyed")

\* C6 witness: a timer that was never aborted has posted its timeout event
C6_Witness ==
    \E t \in TimerIds :
        /\ timers[t].signals = 1
        /\ ~timers[t].want_abort
        /\ timers[t].pc = "posted"

\* C7: a timer whose abort flag is set before it tests the flag never posts
\* a timeout event: it goes to its return without a signal and stays there.
C7_Cancellation ==
    [][ \A t \in TimerIds :
          /\ (timers[t].want_abort /\ timers[t].pc \in {"sleeping", "woken"})
               => (timers'[t].pc \in {"sleeping", "woken", "returned"}
                   /\ timers'[t].signals = 0)
          /\ (timers[t].pc = "returned")
               => (timers'[t].pc = "returned" /\ timers'[t].signals = 0) ]_vars

\* C7 witness: an aborted timer woke up, saw the flag and returned while no
\* timeout event of it is pending
C7_Witness ==
    \E t \in TimerIds :
        /\ timers[t].pc = "returned"
        /\ timers[t].want_abort
        /\ \A i \in 1 .. Len(queue) :
             ~(queue[i].type = "timeout" /\ queue[i].timer = t)

\* C8: with nagging disabled no timer is ever created, started or stored.
C8_NoNagMode ==
    ~nagging => /\ counter = 0
                /\ nextTimer = 1
                /\ \A t \in TimerIds : timers[t].pc = "new"

\* C8 witness: nagging is disabled and two changes to positions with a dwell
\* entry have been applied
C8_Witness ==
    /\ ~nagging
    /\ Len(moves) = 2
    /\ \A i \in 1 .. Len(moves) : MaxTimeAtPosition(moves[i]) > 0
    /\ result = "ok"

\* C9: every accepted change completes, also when the desk-mover invocation
\* fails: the position is the new name and, with nagging enabled and a
\* positive dwell, the previous timer is aborted and a fresh one is started
\* and stored.
C9_MoveFailureSwallowed ==
    [][ (HandlesChange /\ HeadAccepted)
          => (position' = Head(queue).position
              /\ ((nagging /\ MaxTimeAtPosition(Head(queue).position) > 0)
                    => (counter' = nextTimer
                        /\ timers'[counter'].pc = "sleeping"
                        /\ (counter # 0 => timers'[counter].want_abort)))) ]_vars

\* C10: a change command processed while the config cannot be read fails as
\* ConfigUnavailable, not InvalidPosition, and leaves the controller state
\* unchanged.
C10_ConfigUnavailable ==
    [][ (HandlesChange /\ ~config.ok)
          => (result' = "ConfigUnavailable" /\ ControllerUnchanged) ]_vars

\* C10 witness: a command failed on the config read while a position was
\* held and a timer stored
C10_Witness ==
    /\ result = "ConfigUnavailable"
    /\ position # None
    /\ counter # 0


\* C11: abort() only sets the abort flag: on any timer in any state it keeps
\* the thread's place and its signal count, leaves the other timers alone
\* and a second call changes nothing more; a timer that has posted or
\* returned never posts again, and the abort made when the stored counter is
\* replaced changes nothing of the old timer but its flag.
C11_AbortIdempotent ==
    /\ [](\A t \in TimerIds :
            LET once == AbortCounter(timers, t) IN
            /\ once[t] = [timers[t] EXCEPT !.want_abort = TRUE]
            /\ \A u \in TimerIds \ {t} : once[u] = timers[u]
            /\ AbortCounter(once, t) = once)
    /\ [][ /\ \A t \in TimerIds :
                timers[t].pc \in {"posted", "returned"}
                  => (timers'[t].pc = timers[t].pc
                      /\ timers'[t].signals = timers[t].signals)
           /\ (counter # 0 /\ counter' # counter)
                => timers'[counter] = [timers[counter] EXCEPT
                                         !.want_abort = TRUE] ]_vars

\* C11 witness: the only menu request was applied, its timer posted, the
\* timeout was handled and the toggle's change then aborted that timer after
\* its signal was delivered
C11_Witness ==
    /\ requests = 1
    /\ counter = 2
    /\ timers[1].pc = "posted"
    /\ timers[1].signals = 1
    /\ timers[1].want_abort
    /\ queue = <<>>


\* C12: with nagging enabled, when a change to a different valid position
\* with a positive dwell is accepted while the stored timer is still
\* sleeping, the position becomes the new name, the old timer is aborted and
\* a new timer started at the full dwell of the new position is stored.
C12_ChangeWhileRunning ==
    [][ (HandlesChange /\ HeadAccepted /\ nagging
         /\ Head(queue).position # position
         /\ MaxTimeAtPosition(Head(queue).position) > 0
         /\ counter # 0 /\ timers[counter].pc = "sleeping"
         /\ ~timers[counter].want_abort)
          => (position' = Head(queue).position
              /\ timers'[counter].want_abort
              /\ counter' = nextTimer
              /\ timers'[counter'] =
                   StartedTimer(MaxTimeAtPosition(Head(queue).position))) ]_vars


\* a timer that is started, not aborted and has not yet posted its timeout
Active(t) ==
    /\ timers[t].pc \in {"sleeping", "woken", "posting"}
    /\ ~timers[t].want_abort

\* C13: at most one timer is active, and every started timer other than the
\* stored counter has been aborted or has posted its timeout.
C13_AtMostOneActive ==
    /\ Cardinality({t \in TimerIds : Active(t)}) <= 1
    /\ \A t \in TimerIds :
         (timers[t].pc # "new" /\ t # counter)
            => (timers[t].want_abort \/ timers[t].signals = 1)

\* C13 witness: a second timer was started while the first was still
\* sleeping; the first is aborted, the second is the only active one
C13_Witness ==
    /\ counter = 2
    /\ timers[1].pc = "sleeping"
    /\ timers[1].want_abort
    /\ Active(2)


\* C14: for every timer, fired (its timeout was posted) and aborted (its
\* abort flag is set) are never both true, both start false, and once
\* either is true the timer never fires (again).
C14_FiredAbortedExclusive ==
    /\ [](\A t \in TimerIds :
            /\ ~(timers[t].signals = 1 /\ timers[t].want_abort)
            /\ (timers[t].pc = "new")
                 => (timers[t].signals = 0 /\ ~timers[t].want_abort))
    /\ [][ \A t \in TimerIds :
             (timers[t].signals = 1 \/ timers[t].want_abort)
               => timers'[t].signals = timers[t].signals ]_vars


\* this step is the main loop running _toggle_position on the head event
HandlesTimeout ==
    /\ queue # <<>>
    /\ Head(queue).type = "timeout"
    /\ Len(queue') = Len(queue)
    /\ queue' # queue

\* C15: handling a timeout posts exactly one change request, for "sit" if
\* and only if the current position is "stand" and for "stand" otherwise,
\* and changes neither the position nor the stored timer nor any timer.
C15_ToggleTarget ==
    [][ HandlesTimeout
          => LET request == queue'[Len(queue')] IN
             /\ queue' = Append(Tail(queue), request)
             /\ request.type = "change"
             /\ request.position \in {"sit", "stand"}
             /\ (request.position = "sit") <=> (position = "stand")
             /\ position' = position
             /\ counter' = counter
             /\ timers' = timers
             /\ nextTimer' = nextTimer
             /\ moves' = moves ]_vars

\* C15 witness: at a third position, the timeout of the timer that was left
\* running has been handled and asks for "stand"
C15_Witness ==
    /\ position = "mid"
    /\ queue # <<>>
    /\ queue[Len(queue)].type = "change"
    /\ queue[Len(queue)].timer # 0
    /\ queue[Len(queue)].position = "stand"


\* C16: every accepted change invokes the desk-mover exactly once with the
\* accepted name, after the position is set and before any timer is touched
\* (when the invocation raises, the position is already the new name and no
\* timer was aborted or started); no other step invokes it, and the argument
\* of the latest invocation is always the current position.
C16_OneMovePerAcceptedChange ==
    /\ [](IF moves = <<>>
          THEN position = None
          ELSE moves[Len(moves)] = position)
    /\ [][ IF HandlesChange /\ HeadAccepted
           THEN /\ moves' = Append(moves, Head(queue).position)
                /\ position' = Head(queue).position
                /\ (result' = "DeskMoveFailed")
                     => (timers' = timers /\ counter' = counter)
           ELSE moves' = moves /\ position' = position ]_vars

\* C16 witness: the held position was accepted a second time and the
\* desk-mover was invoked for each of the two accepted changes
C16_Witness ==
    /\ Len(moves) = 2
    /\ moves[1] = moves[2]
    /\ position = moves[2]
    /\ result = "ok"


\* no timeout can reach the controller unless a new timer is started: none
\* is queued and no thread is on its way to post one
NoTimeoutAhead ==
    /\ \A i \in 1 .. Len(queue) : queue[i].type # "timeout"
    /\ \A t \in TimerIds :
         /\ timers[t].pc # "posting"
         /\ (timers[t].pc \in {"sleeping", "woken"}) => timers[t].want_abort

\* C17: when the change command posted by a timeout is processed and its
\* name is not in the positions read from the config, it is rejected, the
\* position is unchanged, no timer is started, and no further timeout can be
\* delivered before another change is accepted.
C17_RejectedToggleStopsNagging ==
    [][ (HandlesChange /\ Head(queue).timer # 0 /\ config.ok
         /\ Head(queue).position \notin config.positions)
          => (result' = "InvalidPosition"
              /\ position' = position
              /\ counter' = counter
              /\ nextTimer' = nextTimer
              /\ NoTimeoutAhead') ]_vars


\* C17 as amended: when the change command posted by a timeout is processed
\* and its name is not in the positions read from the config, it is rejected
\* and nothing of the controller state changes (no timer aborted or started,
\* no desk-mover invocation); the timer whose timeout produced the command
\* has posted its one signal and never posts another.
C17_RejectedToggleChangesNothing ==
    [][ /\ (HandlesChange /\ Head(queue).timer # 0 /\ config.ok
            /\ Head(queue).position \notin config.positions)
             => (result' = "InvalidPosition"
                 /\ ControllerUnchanged
                 /\ timers'[Head(queue).timer].pc = "posted"
                 /\ timers'[Head(queue).timer].signals = 1)
        /\ \A t \in TimerIds :
             timers[t].pc = "posted"
               => (timers'[t].pc = "posted" /\ timers'[t].signals = 1) ]_vars

\* C17 witness: the only menu request was applied, its timer fired, the
\* toggle's command was rejected and no timeout is ahead: nagging stopped
C17_Witness ==
    /\ requests = 1
    /\ Len(moves) = 1
    /\ result = "InvalidPosition"
    /\ timers[1].pc = "posted"
    /\ counter = 1
    /\ queue = <<>>
    /\ NoTimeoutAhead


\* this step is on_position handling a menu click
HandlesRequest == requests' = requests + 1

\* C18: a menu request posts a change command only for a name that differs
\* from the current position at that moment; when requests are issued one at
\* a time with nothing pending, the desk-mover is never invoked by a menu
\* command for the position already held.
C18_RequestOnlyIfDifferent ==
    [][ /\ HandlesRequest
             => \/ queue' = queue
                \/ /\ Len(queue') = Len(queue) + 1
                   /\ queue'[Len(queue')].type = "change"
                   /\ queue'[Len(queue')].position # position
        /\ (HandlesChange /\ HeadAccepted /\ Head(queue).timer = 0)
             => (Head(queue).position # position
                 /\ moves' = Append(moves, Head(queue).position)) ]_vars

\* C18 witness: two menu requests, each issued with nothing pending, the
\* second one for the position already held: it posted nothing and the
\* desk-mover was invoked once
C18_Witness ==
    /\ requests = 2
    /\ queue = <<>>
    /\ Len(moves) = 1
    /\ position = moves[1]
    /\ nextTimer = 2
    /\ result = "ok"

====
